---- MODULE Spec2Model ----
(***************************************************************************)
(* BAMmart (src/BAMmart.py): the `query` pipeline of __main__              *)
(* (find_bam_files, parse_enst per file, aggregation, biomart_query,       *)
(* dropna, to_csv) and the unused tag-based extractor parse_ensg.          *)
(*                                                                         *)
(* Python values are represented as follows.                               *)
(*   Optional value : None is <<>>, a present value x is <<x>>             *)
(*   str that the code inspects character by character (column names, tag  *)
(*   values): a sequence of one-character strings                          *)
(*   DataFrame : [columns |-> sequence of names, rows |-> sequence of rows]*)
(*   a missing cell (NaN) : NA                                             *)
(* Variables marked "history" are not program variables: they record what  *)
(* the environment did (files read, remote operations) so that properties  *)
(* can refer to it.                                                        *)
(***************************************************************************)
EXTENDS Integers, Sequences, FiniteSets, TLC

\* ---------------------------------------------------------------- bounds
MaxFiles == 2
MaxRecords == 2
MaxBatch == 3
MaxRows == 1
MaxEnsgRecords == 2

\* The batch size the help text of --batch_size recommends as ceiling.
DefaultBatch == 500

\* ------------------------------------------------------------ Python values
None == <<>>
Some(x) == <<x>>
NA == "NaN"

Range(s) == {s[k] : k \in 1..Len(s)}

\* list(a_set): a set has no order, so any duplicate-free listing may result.
list(S) == {s \in [1..Cardinality(S) -> S] : \A a, b \in 1..Cardinality(S) : a # b => s[a] # s[b]}

\* Python truthiness of an Optional[str]: None and "" are falsy.
Truthy(opt) == opt # None /\ opt[1] # ""

\* s[a:b] with 0 <= a, Python slice semantics (0-based, end exclusive, clipped).
Slice(s, a, b) == SubSeq(s, a + 1, IF b < Len(s) THEN b ELSE Len(s))

\* ------------------------------------------------------- alignment records
RefNames == {"ENST1", "ENST2", "chr1"}

\* What parse_enst looks at in a pysam read.
EnstRecords == [is_unmapped : BOOLEAN, reference_name : {None} \cup {Some(n) : n \in RefNames}]

SeqsUpTo(S, n) == UNION {[1..k -> S] : k \in 0..n}

\* How pysam.AlignmentFile(bam, 'rb') may end: the container opens, the
\* path does not resolve (FileNotFoundError), or some other exception.
OpenOutcomes == {"ok", "notfound", "error"}

\* ----------------------------------------------------------------- parse_enst
\* Variant: the unmapped flag is not consulted.
EnstEmits_IgnoreFlag(read) == Truthy(read.reference_name)

\* `if not read.is_unmapped and read.reference_name:`
EnstEmits(read) == ~read.is_unmapped /\ Truthy(read.reference_name)

\* `ids.add(read.reference_name)` under that condition.
EnstAdd(ids, read) == IF EnstEmits(read) THEN ids \cup {read.reference_name[1]} ELSE ids

\* Variant: what was collected before the fault is returned.
EnstExceptResult_KeepPartial(ids) == list(ids)

\* `except FileNotFoundError: ... return []` and `except Exception: ... return []`
EnstExceptResult(ids) == {<<>>}

\* -------------------------------------------------------------- data frames
EmptyDataFrame == [columns |-> <<>>, rows |-> <<>>]

Whitespace == {" "}

RECURSIVE lstrip(_)
lstrip(s) == IF s # <<>> /\ Head(s) \in Whitespace THEN lstrip(Tail(s)) ELSE s

RECURSIVE rstrip(_)
rstrip(s) == IF s # <<>> /\ s[Len(s)] \in Whitespace THEN rstrip(SubSeq(s, 1, Len(s) - 1)) ELSE s

strip(s) == rstrip(lstrip(s))

replace(s, old, new) == [k \in 1..Len(s) |-> IF s[k] = old THEN new ELSE s[k]]

LowerOf == [c \in {"G", "N", "Y", "E"} |-> CASE c = "G" -> "g" [] c = "N" -> "n" [] c = "Y" -> "y" [] c = "E" -> "e"]

lower(s) == [k \in 1..Len(s) |-> IF s[k] \in DOMAIN LowerOf THEN LowerOf[s[k]] ELSE s[k]]

\* c.strip().replace(" ", "_").lower()
NormalizeColumn(c) == lower(replace(strip(c), " ", "_"))

RECURSIVE ConcatRows(_)
ConcatRows(frames) == IF frames = <<>> THEN <<>> ELSE Head(frames).rows \o ConcatRows(Tail(frames))

RECURSIVE DropDuplicates(_)
DropDuplicates(rows) ==
    IF rows = <<>> THEN <<>>
    ELSE LET front == DropDuplicates(SubSeq(rows, 1, Len(rows) - 1)) IN
         IF rows[Len(rows)] \in Range(front) THEN front ELSE Append(front, rows[Len(rows)])

\* Variant: rows repeated across batches are collapsed.
concat_DropDuplicates(frames) == [columns |-> frames[1].columns, rows |-> DropDuplicates(ConcatRows(frames))]

\* pd.concat(all_results, ignore_index=True) of frames sharing one header.
concat(frames) == [columns |-> frames[1].columns, rows |-> ConcatRows(frames)]

\* Variant: dropna(how='all'), only rows with every cell missing are dropped.
dropna_HowAll(df) == [columns |-> df.columns, rows |-> SelectSeq(df.rows, LAMBDA r : \E c \in 1..Len(r) : r[c] # NA)]

\* DataFrame.dropna(): drop every row with at least one missing cell.
dropna(df) == [columns |-> df.columns, rows |-> SelectSeq(df.rows, LAMBDA r : \A c \in 1..Len(r) : r[c] # NA)]

\* ------------------------------------------------------------ remote service
\* The column headers the service answers with for the requested attributes.
Headers == { << <<" ", "G", "e", " ", "N", " ">>, <<"Y">> >> }

Rows == { <<"v1", "w1">>, <<"v2", NA>> }

\* only_unique=True: the rows of one response are pairwise distinct.
Responses == {rs \in SeqsUpTo(Rows, MaxRows) : \A a, b \in 1..Len(rs) : a # b => rs[a] # rs[b]}

\* --batch_size: type=int, required=False, no default.
BatchSizes == {None} \cup {Some(b) : b \in -1..MaxBatch}

\* ------------------------------------------------------------------- state
VARIABLES
    pc,                  \* position in __main__ / biomart_query
    batch_size,          \* args.batch_size
    header,              \* columns the service answers with (environment)
    nfiles,              \* len(all_bam_files)
    fileIdx,             \* 1-based position of the enumerate loop
    ids,                 \* parse_enst: ids
    read,                \* parse_enst: the record fetched last, None before the first
    nread,               \* history: records fetched from the current file
    names,               \* history: reference_name of every mapped record fetched from it
    scanOk,              \* history: the last parse_enst call read its file to the end
    enst_list_from_file, \* what the last parse_enst call returned
    all_enst_ids,        \* the aggregated set
    opened,              \* history: positions of the files handed to parse_enst
    okIds,               \* history: reference names of mapped reads of the files read to the end
    failedScans,         \* history: number of files whose scan raised
    final_enst_list,     \* ids of biomart_query
    i,                   \* loop variable of biomart_query
    all_results,         \* list of batch frames
    biomart_df,          \* biomart_query's return value, then its dropna()
    connections,         \* history: Dataset(...) constructions
    queries,             \* history: database.query calls, [batch, raised, rows]
    raised,              \* history: where biomart_query's try block raised, "none" if not
    written,             \* to_csv was called
    csv,                 \* the frame given to to_csv
    ensg_bam,            \* the file parse_ensg was called on, None before
    ensg_result          \* how that call ended

enstVars == <<ids, read, nread, names>>
scanVars == <<nfiles, fileIdx, enstVars, scanOk, enst_list_from_file, all_enst_ids, opened, okIds, failedScans>>
queryVars == <<final_enst_list, i, all_results, biomart_df, connections, queries, raised>>
outVars == <<written, csv>>
argVars == <<batch_size, header>>
ensgVars == <<ensg_bam, ensg_result>>
vars == <<pc, argVars, scanVars, queryVars, outVars, ensgVars>>

\* The state once parser.parse_args() has returned for the `query` command.
Init ==
    /\ pc = "find"
    /\ batch_size \in BatchSizes
    /\ header \in Headers
    /\ nfiles = 0
    /\ fileIdx = 1
    /\ ids = {}
    /\ read = None
    /\ nread = 0
    /\ names = {}
    /\ scanOk = FALSE
    /\ enst_list_from_file = <<>>
    /\ all_enst_ids = {}
    /\ opened = <<>>
    /\ okIds = {}
    /\ failedScans = 0
    /\ final_enst_list = <<>>
    /\ i = 0
    /\ all_results = <<>>
    /\ biomart_df = EmptyDataFrame
    /\ connections = 0
    /\ queries = <<>>
    /\ raised = "none"
    /\ written = FALSE
    /\ csv = EmptyDataFrame
    /\ ensg_bam = None
    /\ ensg_result = None

\* ------------------------------------------------------------------ __main__
\* all_bam_files = find_bam_files(args.root_dir); `if not all_bam_files:`
\* prints and falls off the end of the script.
FindBamFiles ==
    /\ pc = "find"
    /\ \E n \in 0..MaxFiles :
        /\ nfiles' = n
        /\ pc' = IF n = 0 THEN "done" ELSE "scan"
    /\ UNCHANGED <<argVars, fileIdx, enstVars, scanOk, enst_list_from_file, all_enst_ids, opened,
                   okIds, failedScans, queryVars, outVars, ensgVars>>

\* The next iteration of `for i, bam_file in enumerate(all_bam_files)` calls
\* parse_enst, which opens the container.  A failing open returns [].
ParseEnstOpen ==
    /\ pc = "scan"
    /\ fileIdx <= nfiles
    /\ opened' = Append(opened, fileIdx)
    /\ ids' = {}
    /\ read' = None
    /\ nread' = 0
    /\ names' = {}
    /\ scanOk' = FALSE
    /\ \E outcome \in OpenOutcomes :
        IF outcome = "ok"
        THEN /\ pc' = "fetch"
             /\ enst_list_from_file' = <<>>
             /\ failedScans' = failedScans
        ELSE /\ pc' = "update"
             /\ enst_list_from_file' \in EnstExceptResult({})
             /\ failedScans' = failedScans + 1
    /\ UNCHANGED <<argVars, nfiles, fileIdx, all_enst_ids, okIds, queryVars, outVars, ensgVars>>

\* One iteration of `for read in samfile.fetch(until_eof=True)`.
ParseEnstRead ==
    /\ pc = "fetch"
    /\ nread < MaxRecords
    /\ \E r \in EnstRecords :
        /\ read' = Some(r)
        /\ ids' = EnstAdd(ids, r)
        /\ names' = IF r.is_unmapped THEN names ELSE names \cup {r.reference_name}
    /\ nread' = nread + 1
    /\ UNCHANGED <<pc, argVars, nfiles, fileIdx, scanOk, enst_list_from_file, all_enst_ids, opened,
                   okIds, failedScans, queryVars, outVars, ensgVars>>

\* fetch raises (truncated or malformed container): `except Exception`.
ParseEnstRaise ==
    /\ pc = "fetch"
    /\ enst_list_from_file' \in EnstExceptResult(ids)
    /\ failedScans' = failedScans + 1
    /\ pc' = "update"
    /\ UNCHANGED <<argVars, nfiles, fileIdx, enstVars, scanOk, all_enst_ids, opened, okIds,
                   queryVars, outVars, ensgVars>>

\* End of stream: `return list(ids)`.
ParseEnstReturn ==
    /\ pc = "fetch"
    /\ enst_list_from_file' \in list(ids)
    /\ scanOk' = TRUE
    /\ okIds' = okIds \cup {n[1] : n \in names \ {None}}
    /\ pc' = "update"
    /\ UNCHANGED <<argVars, nfiles, fileIdx, enstVars, all_enst_ids, opened, failedScans,
                   queryVars, outVars, ensgVars>>

\* all_enst_ids.update(enst_list_from_file), and on to the next file.
UpdateIds ==
    /\ pc = "update"
    /\ all_enst_ids' = all_enst_ids \cup Range(enst_list_from_file)
    /\ fileIdx' = fileIdx + 1
    /\ pc' = "scan"
    /\ UNCHANGED <<argVars, nfiles, enstVars, scanOk, enst_list_from_file, opened, okIds, failedScans,
                   queryVars, outVars, ensgVars>>

\* Variant: the early return is missing.
NotIds_Never(lst) == FALSE

\* `if not ids:` of biomart_query.
NotIds(lst) == lst = <<>>

\* Loop exhausted: final_enst_list = list(all_enst_ids) and the call of
\* biomart_query up to its first statement.  enst_list_from_file and what
\* is remembered of the last parse_enst call are dead from here on and are
\* forgotten.
AggregationComplete ==
    /\ pc = "scan"
    /\ fileIdx > nfiles
    /\ \E lst \in list(all_enst_ids) :
        /\ final_enst_list' = lst
        /\ IF NotIds(lst)
           THEN /\ biomart_df' = EmptyDataFrame
                /\ pc' = "dropna"
           ELSE /\ biomart_df' = biomart_df
                /\ pc' = "connect"
    /\ ids' = {}
    /\ read' = None
    /\ nread' = 0
    /\ names' = {}
    /\ scanOk' = FALSE
    /\ enst_list_from_file' = <<>>
    /\ UNCHANGED <<argVars, nfiles, fileIdx, all_enst_ids, opened, okIds, failedScans,
                   i, all_results, connections, queries, raised, outVars, ensgVars>>

\* ------------------------------------------------------------- biomart_query
\* Variant: the batches that succeeded before the fault are returned.
ExceptResult_KeepPartial(results) == IF results = <<>> THEN EmptyDataFrame ELSE concat(results)

\* `except Exception as e: ... return pd.DataFrame()`
ExceptResult(results) == EmptyDataFrame

\* Variant: the slice ends one element early.
Batch_OffByOne(lst, k, size) == Slice(lst, k, k + size - 1)

\* ids[i:i + batch_size]
Batch(lst, k, size) == Slice(lst, k, k + size)

\* database = Dataset(...), then the evaluation of range(0, len(ids), batch_size):
\* TypeError for None, ValueError for 0.
Connect ==
    /\ pc = "connect"
    /\ connections' = connections + 1
    /\ \E ok \in BOOLEAN :
        IF ~ok
        THEN /\ raised' = "connect"
             /\ biomart_df' = ExceptResult(all_results)
             /\ pc' = "dropna"
        ELSE IF batch_size = None \/ batch_size = Some(0)
        THEN /\ raised' = "range"
             /\ biomart_df' = ExceptResult(all_results)
             /\ pc' = "dropna"
        ELSE /\ raised' = raised
             /\ biomart_df' = biomart_df
             /\ pc' = "loop"
    /\ i' = 0
    /\ UNCHANGED <<argVars, scanVars, final_enst_list, all_results, queries, outVars, ensgVars>>

\* range(0, len(ids), batch_size) still has an element at i.
InRange(k, n, step) == IF step > 0 THEN k < n ELSE k > n

\* One iteration of the batch loop: the query returns a frame or raises.
QueryBatch ==
    /\ pc = "loop"
    /\ InRange(i, Len(final_enst_list), batch_size[1])
    /\ LET batch == Batch(final_enst_list, i, batch_size[1]) IN
        \/ \E rs \in Responses :
            /\ queries' = Append(queries, [batch |-> batch, raised |-> FALSE, rows |-> rs])
            /\ all_results' = Append(all_results, [columns |-> header, rows |-> rs])
            /\ i' = i + batch_size[1]
            /\ UNCHANGED <<pc, biomart_df, raised>>
        \/ /\ queries' = Append(queries, [batch |-> batch, raised |-> TRUE, rows |-> <<>>])
           /\ raised' = "query"
           /\ biomart_df' = ExceptResult(all_results)
           /\ pc' = "dropna"
           /\ UNCHANGED <<i, all_results>>
    /\ UNCHANGED <<argVars, scanVars, final_enst_list, connections, outVars, ensgVars>>

\* After the loop: pd.concat (ValueError on an empty list), the column
\* normalisation, and the return.
ConcatResults ==
    /\ pc = "loop"
    /\ ~InRange(i, Len(final_enst_list), batch_size[1])
    /\ IF all_results = <<>>
       THEN /\ raised' = "concat"
            /\ biomart_df' = ExceptResult(all_results)
       ELSE /\ raised' = raised
            /\ biomart_df' = [columns |-> [c \in 1..Len(concat(all_results).columns) |->
                                              NormalizeColumn(concat(all_results).columns[c])],
                              rows |-> concat(all_results).rows]
    /\ pc' = "dropna"
    /\ UNCHANGED <<argVars, scanVars, final_enst_list, i, all_results, connections, queries,
                   outVars, ensgVars>>

\* ------------------------------------------------------------ back in __main__
\* biomart_df = biomart_df.dropna()
DropNa ==
    /\ pc = "dropna"
    /\ biomart_df' = dropna(biomart_df)
    /\ pc' = "to_csv"
    /\ UNCHANGED <<argVars, scanVars, final_enst_list, i, all_results, connections, queries,
                   raised, outVars, ensgVars>>

\* Variant: nothing is written when the frame has no rows.
ToCsv_SkipEmpty ==
    /\ pc = "to_csv"
    /\ csv' = IF biomart_df.rows = <<>> THEN csv ELSE biomart_df
    /\ written' = (biomart_df.rows # <<>>)
    /\ pc' = "done"
    /\ UNCHANGED <<argVars, scanVars, queryVars, ensgVars>>

\* biomart_df.to_csv(args.output)
ToCsv ==
    /\ pc = "to_csv"
    /\ csv' = biomart_df
    /\ written' = TRUE
    /\ pc' = "done"
    /\ UNCHANGED <<argVars, scanVars, queryVars, ensgVars>>

Next ==
    \/ FindBamFiles
    \/ ParseEnstOpen
    \/ ParseEnstRead
    \/ ParseEnstRaise
    \/ ParseEnstReturn
    \/ UpdateIds
    \/ AggregationComplete
    \/ Connect
    \/ QueryBatch
    \/ ConcatResults
    \/ DropNa
    \/ ToCsv

Spec == Init /\ [][Next]_vars

\* Every statement of the script runs to completion once started; nothing
\* preempts the single thread.
FairSpec == Spec /\ WF_vars(Next)

TypeOK == pc \in {"find", "scan", "fetch", "update", "connect", "loop", "dropna", "to_csv", "done",
                  "ensg_call", "ensg_done"}

\* ================================================================ parse_ensg
\* parse_ensg is defined but never called by __main__; it is exercised by a
\* specification of its own that calls it once on an arbitrary file.
TagOrder == <<"GX", "GE", "GN">>

Prefix == <<"E", "N", "S", "G">>

TagValues == { <<"E", "N", "S", "G", "1">>, <<"E", "N", "S", "G", "2">>, <<"F", "O", "O">> }

\* What parse_ensg looks at in a pysam read: the flag and the three tags
\* (None: get_tag raises KeyError).
EnsgRecords == [is_unmapped : BOOLEAN, tags : [Range(TagOrder) -> {None} \cup {Some(v) : v \in TagValues}]]

EnsgFiles ==
    {[fault |-> "notfound", at |-> 0, records |-> <<>>]}
    \cup {[fault |-> "none", at |-> 0, records |-> rs] : rs \in SeqsUpTo(EnsgRecords, MaxEnsgRecords)}

\* str.startswith
startswith(val, prefix) == Len(val) >= Len(prefix) /\ SubSeq(val, 1, Len(prefix)) = prefix

\* `for tag in ['GX', 'GE', 'GN']:` from position k on; the gene_id it leaves.
RECURSIVE ProbeTags(_, _)
ProbeTags(rd, k) ==
    IF k > Len(TagOrder) THEN None
    ELSE IF rd.tags[TagOrder[k]] = None THEN ProbeTags(rd, k + 1)
    ELSE IF startswith(rd.tags[TagOrder[k]][1], Prefix) THEN rd.tags[TagOrder[k]]
    ELSE ProbeTags(rd, k + 1)

\* The loop over samfile.fetch(until_eof=True): ids after records k..n.
RECURSIVE ScanEnsg(_, _, _)
ScanEnsg(records, k, acc) ==
    IF k > Len(records) THEN acc
    ELSE IF records[k].is_unmapped THEN ScanEnsg(records, k + 1, acc)
    ELSE ScanEnsg(records, k + 1,
                  IF ProbeTags(records[k], 1) # None THEN acc \cup {ProbeTags(records[k], 1)[1]} ELSE acc)

\* parse_ensg(file): [] for a missing file; otherwise the function ends
\* without a return statement, so the call evaluates to None and the
\* collected ids are lost.  value: None, or Some(the set of returned items).
parse_ensg(file) ==
    IF file.fault = "notfound" THEN [value |-> Some({}), ids |-> {}]
    ELSE [value |-> None, ids |-> ScanEnsg(file.records, 1, {})]

ParseEnsg ==
    /\ pc = "ensg_call"
    /\ \E f \in EnsgFiles :
        /\ ensg_bam' = Some(f)
        /\ ensg_result' = Some(parse_ensg(f))
    /\ pc' = "ensg_done"
    /\ UNCHANGED <<argVars, scanVars, queryVars, outVars>>

InitEnsg ==
    /\ pc = "ensg_call"
    /\ batch_size = None
    /\ header \in Headers
    /\ nfiles = 0
    /\ fileIdx = 1
    /\ ids = {}
    /\ read = None
    /\ nread = 0
    /\ names = {}
    /\ scanOk = FALSE
    /\ enst_list_from_file = <<>>
    /\ all_enst_ids = {}
    /\ opened = <<>>
    /\ okIds = {}
    /\ failedScans = 0
    /\ final_enst_list = <<>>
    /\ i = 0
    /\ all_results = <<>>
    /\ biomart_df = EmptyDataFrame
    /\ connections = 0
    /\ queries = <<>>
    /\ raised = "none"
    /\ written = FALSE
    /\ csv = EmptyDataFrame
    /\ ensg_bam = None
    /\ ensg_result = None

NextEnsg == ParseEnsg

SpecEnsg == InitEnsg /\ [][NextEnsg]_vars

\* ==================================================================== claims
Ceil(n, d) == (n + d - 1) \div d

Min(a, b) == IF a < b THEN a ELSE b

RECURSIVE QueryRows(_)
QueryRows(qs) == IF qs = <<>> THEN <<>> ELSE Head(qs).rows \o QueryRows(Tail(qs))

Complete(row) == \A c \in 1..Len(row) : row[c] # NA

BiomartQueryReturned == pc = "dropna" /\ nfiles > 0

\* C1: for a non-empty ids and B > 0, the batches queried by a biomart_query
\* call that ran through cover every identifier exactly once, each has
\* between 1 and B elements, and there are ceil(len(ids)/B) of them.
C1_BatchesPartitionIds ==
    (BiomartQueryReturned /\ final_enst_list # <<>> /\ raised = "none") =>
        LET B == batch_size[1]
            n == Len(final_enst_list)
        IN /\ B > 0
           /\ Len(queries) = Ceil(n, B)
           /\ \A k \in 1..Len(queries) : Len(queries[k].batch) \in 1..B
           /\ \A p \in 1..n :
                Cardinality({kj \in (1..Len(queries)) \X (1..B) :
                               /\ kj[2] <= Len(queries[kj[1]].batch)
                               /\ queries[kj[1]].batch[kj[2]] = final_enst_list[p]}) = 1
           /\ \A k \in 1..Len(queries) : Range(queries[k].batch) \subseteq Range(final_enst_list)

\* C1 witness: three identifiers in batches of two, the last batch partial.
C1_Witness ==
    /\ BiomartQueryReturned /\ raised = "none"
    /\ Len(final_enst_list) = 3 /\ batch_size = Some(2)
    /\ Len(queries) = 2 /\ Len(queries[2].batch) = 1

\* C2: when the connection fails or the query of batch k raises,
\* biomart_query returns an empty table, the rows of batches 1..k-1 included
\* in nothing that is returned or written.
C2_FaultGivesEmptyTable ==
    raised \in {"connect", "query"} =>
        /\ pc = "dropna" => biomart_df = EmptyDataFrame
        /\ pc \in {"to_csv", "done"} => biomart_df.rows = <<>>
        /\ written => csv.rows = <<>>

\* C2 witness: the second batch raises after the first returned a row.
C2_Witness ==
    /\ pc = "dropna" /\ raised = "query"
    /\ Len(queries) = 2 /\ queries[1].rows # <<>> /\ queries[2].raised

\* C3: with the batch size unset or non-positive, biomart_query resolves the
\* identifiers in batches of at most the default 500 and does not end in its
\* exception handler, unless the remote service itself fails.
C3_DefaultBatchFallback ==
    (BiomartQueryReturned /\ final_enst_list # <<>>
        /\ (batch_size = None \/ batch_size[1] <= 0)
        /\ raised \notin {"connect", "query"}) =>
            /\ raised = "none"
            /\ Len(queries) = Ceil(Len(final_enst_list), DefaultBatch)
            /\ \A k \in 1..Len(queries) : Len(queries[k].batch) \in 1..DefaultBatch

\* C4: with an empty identifier collection biomart_query returns an empty
\* table and neither constructs the dataset connection nor issues a query.
C4_EmptyIdsNoRemote ==
    (pc \in {"dropna", "to_csv", "done"} /\ nfiles > 0 /\ final_enst_list = <<>>) =>
        /\ connections = 0
        /\ queries = <<>>
        /\ biomart_df = EmptyDataFrame

\* C4 witness: files were scanned, none gave an identifier, the call returned.
C4_Witness == BiomartQueryReturned /\ final_enst_list = <<>> /\ failedScans < nfiles

\* C5: every file is handed to the scanner, in order, whatever scans fail,
\* and the aggregated set is the union of the identifier sets of the files
\* read to the end; the list built from it has no duplicates.
C5_FailingScansIsolated ==
    /\ opened = [k \in 1..(IF pc \in {"fetch", "update"} THEN fileIdx ELSE fileIdx - 1) |-> k]
    /\ pc # "update" => all_enst_ids = okIds
    /\ pc \notin {"find", "scan", "fetch", "update"} /\ nfiles > 0 =>
        /\ Len(opened) = nfiles
        /\ Range(final_enst_list) = okIds
        /\ Len(final_enst_list) = Cardinality(okIds)

\* C5 witness: of two files the first failed, the second failed after a
\* mapped read had been collected, and the scan went on with nothing
\* aggregated.
C5_Witness ==
    /\ pc = "scan" /\ fileIdx = 3 /\ failedScans = 2
    /\ ids # {} /\ ~scanOk
    /\ all_enst_ids = {}

\* C6 (as stated): every run ends with the table written to the output path.
C6_AlwaysWrites == pc = "done" => written

\* C6 (amended): every run terminates, and has written the table exactly
\* when at least one .bam file was found.
C6_TerminatesWritingIffFiles == <>[](pc = "done" /\ (written <=> nfiles > 0))

\* C6 witness: a run that ended after a query fault, the table written.
C6_Witness == pc = "done" /\ written /\ raised = "query" /\ failedScans > 0

\* C7: for a file read successfully parse_ensg yields the identifiers of its
\* mapped records, each the value of the first of GX, GE, GN that is present
\* and starts with ENSG.
C7_TagStrategyYields ==
    (pc = "ensg_done" /\ ensg_bam[1].fault = "none") =>
        ensg_result[1].value =
            Some({r.tags[TagOrder[
                      CHOOSE k \in 1..3 :
                          /\ r.tags[TagOrder[k]] # None /\ startswith(r.tags[TagOrder[k]][1], Prefix)
                          /\ \A j \in 1..(k - 1) :
                                ~(r.tags[TagOrder[j]] # None /\ startswith(r.tags[TagOrder[j]][1], Prefix))]][1] :
                  r \in {x \in Range(ensg_bam[1].records) :
                           /\ ~x.is_unmapped
                           /\ \E k \in 1..3 : x.tags[TagOrder[k]] # None
                                               /\ startswith(x.tags[TagOrder[k]][1], Prefix)}})

NoDuplicates(s) == \A a, b \in 1..Len(s) : a # b => s[a] # s[b]

\* C8 (as stated): the result for a file read to the end is the
\* duplicate-free collection of the reference_name of every mapped record.
C8_EveryMappedRecordYields ==
    (pc = "update" /\ scanOk) =>
        /\ {Some(x) : x \in Range(enst_list_from_file)} = names
        /\ NoDuplicates(enst_list_from_file)

\* C8 (amended): the result for a file read to the end is the duplicate-free
\* collection of the reference names of its mapped records that have one,
\* verbatim and whatever their prefix; unmapped records and mapped records
\* without a reference name yield nothing.
C8_MappedNamedRecordsYield ==
    (pc = "update" /\ scanOk) =>
        /\ Range(enst_list_from_file) = {n[1] : n \in {x \in names : x # None}}
        /\ NoDuplicates(enst_list_from_file)

\* C8 witness: a mapped record named chr1, then an unmapped record named
\* ENST1, give exactly chr1.
C8_Witness ==
    /\ pc = "update" /\ scanOk /\ nread = 2
    /\ names = {Some("chr1")}
    /\ read # None /\ read[1].is_unmapped /\ read[1].reference_name = Some("ENST1")
    /\ enst_list_from_file = <<"chr1">>

\* C9: the table given to the writer has no missing value, and when the
\* resolution ran through it is exactly the complete rows of the
\* concatenated batch responses, in order and unchanged.
C9_WrittenRowsAreTheCompleteRows ==
    written =>
        /\ \A k \in 1..Len(csv.rows) : Complete(csv.rows[k])
        /\ (raised = "none" /\ final_enst_list # <<>>) =>
              csv.rows = SelectSeq(QueryRows(queries), Complete)

\* C9 witness: one response had a complete row, another a row with a missing
\* value; only the first is written.
C9_Witness ==
    /\ written /\ raised = "none"
    /\ Len(QueryRows(queries)) >= 2
    /\ \E k \in 1..Len(QueryRows(queries)) : ~Complete(QueryRows(queries)[k])
    /\ csv.rows # <<>>

\* C10: queries go out one at a time in increasing batch order, each batch
\* at most once, none after one that raised; without a raise there is one
\* query per batch and the result is the responses concatenated in batch
\* order, repeated rows kept.
C10_QueriesInOrderOnceEach ==
    /\ [](/\ \A k \in 1..Len(queries) :
               /\ queries[k].batch = SubSeq(final_enst_list, (k - 1) * batch_size[1] + 1,
                                            Min(k * batch_size[1], Len(final_enst_list)))
               /\ queries[k].raised => k = Len(queries)
          /\ (BiomartQueryReturned /\ final_enst_list # <<>> /\ raised = "none") =>
               /\ Len(queries) = Ceil(Len(final_enst_list), batch_size[1])
               /\ biomart_df.rows = QueryRows(queries))
    /\ [][/\ Len(queries') <= Len(queries) + 1
          /\ SubSeq(queries', 1, Len(queries)) = queries
          /\ raised # "none" => queries' = queries]_vars

\* C10 witness: two batches answered with the same row, both kept.
C10_Witness ==
    /\ BiomartQueryReturned /\ raised = "none"
    /\ Len(queries) = 2 /\ queries[1].rows # <<>> /\ queries[1].rows = queries[2].rows
    /\ Len(biomart_df.rows) = 2

====
